---- MODULE Spec2Model ----
(***************************************************************************)
(* Model of scripts/remove_flow_methods.py: the script reads a TypeScript  *)
(* file, cuts a list of methods out of it with remove_method (a regular    *)
(* expression finds the declaration, a character loop counts braces up to  *)
(* the closing one), runs a fixed sequence of textual substitutions and    *)
(* writes the file back.                                                   *)
(*                                                                         *)
(* Text is a sequence of one-character strings.  Offsets are the 0-based   *)
(* offsets of the Python code; At and Slice translate them to TLA+'s       *)
(* 1-based sequences.                                                      *)
(***************************************************************************)
EXTENDS Integers, Sequences, FiniteSets, TLC

VARIABLES
    file,               \* the text of servicenow-deployment-mcp.ts on disk
    content,            \* the script's global `content`
    methods_to_remove,  \* the list the removal loop walks
    rules,              \* the substitutions that follow the loop, by line
    pc,                 \* position of the script
    run,                \* how many times the script has been started
    method,             \* index (0-based) of the loop's current method
    start_pos,          \* remove_method: match.start()
    i,                  \* remove_method: scan index
    brace_count,        \* remove_method: depth counter
    in_string,          \* remove_method: NotInString or the opening quote
    escape_next,        \* remove_method: the next character is escaped
    out                 \* what remove_method printed during this run

vars == <<file, content, methods_to_remove, rules, pc, run, method, start_pos,
          i, brace_count, in_string, escape_next, out>>

-----------------------------------------------------------------------------
(* Bounds of the model                                                     *)

\* longest method body enumerated character by character
MaxBody == 3
\* number of times the script is run on the same file
MaxRuns == 2

-----------------------------------------------------------------------------
(* Python slices and indexing                                              *)

\* s[k], k 0-based
At(s, k) == s[k + 1]

\* s[a:b], a and b 0-based, b exclusive
Slice(s, a, b) == SubSeq(s, a + 1, b)

\* s[:k].count(chr(10))
CountNewlines(s, k) == Cardinality({j \in 1..k : s[j] = "\n"})

-----------------------------------------------------------------------------
(* Regular expressions (module re), for the patterns the scripts use: a    *)
(* pattern is a sequence of elements, each a character class with a        *)
(* quantifier, a literal word, the anchor ^ (under re.MULTILINE) or an     *)
(* optional group.                                                         *)
(* MatchAt is re's backtracking matcher: it returns the end of the first   *)
(* match in re's order of preference (greedy quantifiers try the longest   *)
(* repetition first, the lazy one the shortest), or -1.                    *)

\* \s, for the white space characters that occur in the modelled texts
Whitespace == {" ", "\t", "\n", "\r", "\f"}

Cls(set, q) == [k |-> "cls", neg |-> FALSE, set |-> set, q |-> q, sub |-> <<>>]

NotCls(set, q) == [k |-> "cls", neg |-> TRUE, set |-> set, q |-> q, sub |-> <<>>]

Bol == [k |-> "bol", neg |-> FALSE, set |-> {}, q |-> "1", sub |-> <<>>]

Opt(sub) == [k |-> "opt", neg |-> FALSE, set |-> {}, q |-> "?", sub |-> sub]

\* a literal word, as a pattern of one element
Lit(w) == <<[k |-> "lit", neg |-> FALSE, set |-> {}, q |-> "1", sub |-> w]>>

InClass(e, c) == IF e.neg THEN c \notin e.set ELSE c \in e.set

Min(a, b) == IF a < b THEN a ELSE b

\* number of consecutive characters of s from offset pos that are in e's class
RunLength(e, s, pos) ==
    LET stop == CHOOSE j \in pos..Len(s) :
                    /\ j = Len(s) \/ ~InClass(e, At(s, j))
                    /\ \A h \in pos..(j - 1) : InClass(e, At(s, h))
    IN  stop - pos

RECURSIVE MatchFrom(_, _, _, _)

\* greedy repetition: n characters taken, then n-1, ... down to lo; the first
\* count from which the rest of the pattern matches is the largest
TryDown(pat, k, s, pos, n, lo) ==
    LET fits == {m \in lo..n : MatchFrom(pat, k, s, pos + m) # -1}
    IN  IF fits = {} THEN -1
        ELSE MatchFrom(pat, k, s,
                       pos + CHOOSE m \in fits : \A h \in fits : h <= m)

\* lazy repetition: n characters taken, then n+1, ... up to hi; the first
\* count from which the rest of the pattern matches is the smallest
TryUp(pat, k, s, pos, n, hi) ==
    LET fits == {m \in n..hi : MatchFrom(pat, k, s, pos + m) # -1}
    IN  IF fits = {} THEN -1
        ELSE MatchFrom(pat, k, s,
                       pos + CHOOSE m \in fits : \A h \in fits : m <= h)

\* the elements of pat from the k-th on, matched at offset pos
MatchFrom(pat, k, s, pos) ==
    IF k > Len(pat) THEN pos
    ELSE LET e == pat[k]
         IN  CASE e.k = "bol" ->
                    IF pos = 0 \/ At(s, pos - 1) = "\n"
                    THEN MatchFrom(pat, k + 1, s, pos) ELSE -1
               [] e.k = "lit" ->
                    IF /\ pos + Len(e.sub) <= Len(s)
                       /\ Slice(s, pos, pos + Len(e.sub)) = e.sub
                    THEN MatchFrom(pat, k + 1, s, pos + Len(e.sub)) ELSE -1
               [] e.k = "opt" ->
                    LET with ==
                          MatchFrom(e.sub \o SubSeq(pat, k + 1, Len(pat)), 1, s, pos)
                    IN  IF with # -1 THEN with
                        ELSE MatchFrom(pat, k + 1, s, pos)
               [] OTHER ->
                    CASE e.q = "1" ->
                           IF pos < Len(s) /\ InClass(e, At(s, pos))
                           THEN MatchFrom(pat, k + 1, s, pos + 1) ELSE -1
                      [] e.q = "?" ->
                           TryDown(pat, k + 1, s, pos,
                                   Min(RunLength(e, s, pos), 1), 0)
                      [] e.q = "*" ->
                           TryDown(pat, k + 1, s, pos, RunLength(e, s, pos), 0)
                      [] e.q = "+" ->
                           TryDown(pat, k + 1, s, pos, RunLength(e, s, pos), 1)
                      [] e.q = "*?" ->
                           TryUp(pat, k + 1, s, pos, 0, RunLength(e, s, pos))

MatchAt(pat, s, pos) == MatchFrom(pat, 1, s, pos)

NoMatch == [start |-> -1, end |-> -1]

\* a search that returns the rightmost match
SearchLast(pat, s, from) ==
    LET found == {p \in from..Len(s) : MatchAt(pat, s, p) # -1}
    IN  IF found = {} THEN NoMatch
        ELSE LET last == CHOOSE p \in found : \A q \in found : q <= p
             IN  [start |-> last, end |-> MatchAt(pat, s, last)]

\* re.search from offset `from`: the leftmost match, as match.start() and
\* match.end(), or NoMatch
Search(pat, s, from) ==
    LET found == {p \in from..Len(s) : MatchAt(pat, s, p) # -1}
    IN  IF found = {} THEN NoMatch
        ELSE LET first == CHOOSE p \in found : \A q \in found : p <= q
             IN  [start |-> first, end |-> MatchAt(pat, s, first)]

\* re.sub(pat, repl, s): every non-overlapping match, leftmost first, is
\* replaced by repl (no pattern of the scripts matches the empty string)
RECURSIVE SubFrom(_, _, _, _)
SubFrom(pat, repl, s, from) ==
    LET mt == Search(pat, s, from)
    IN  IF mt = NoMatch \/ mt.end = mt.start THEN Slice(s, from, Len(s))
        ELSE Slice(s, from, mt.start) \o repl \o SubFrom(pat, repl, s, mt.end)

Sub(pat, repl, s) == SubFrom(pat, repl, s, 0)

-----------------------------------------------------------------------------
(* remove_flow_methods.py, lines 9-71: the methods and remove_method        *)

deployFlow == <<"d","e","p","l","o","y","F","l","o","w">>

validateFlowDefinition ==
    <<"v","a","l","i","d","a","t","e","F","l","o","w","D","e","f","i","n","i","t","i","o","n">>

createBusinessRuleFallback ==
    <<"c","r","e","a","t","e","B","u","s","i","n","e","s","s","R","u","l","e","F","a","l","l","b","a","c","k">>

deployLinkedArtifact ==
    <<"d","e","p","l","o","y","L","i","n","k","e","d","A","r","t","i","f","a","c","t">>

getTriggerWhen == <<"g","e","t","T","r","i","g","g","e","r","W","h","e","n">>

\* the list of lines 10-16
MethodsToRemove ==
    <<deployFlow, validateFlowDefinition, createBusinessRuleFallback,
      deployLinkedArtifact, getTriggerWhen>>

\* the pattern without \s*\( after the name: any text may stand between the
\* name and the brace
PatternWithoutParameters(method_name) ==
    <<Bol, Cls(Whitespace, "*"),
      Opt(Lit(<<"p","r","i","v","a","t","e">>) \o <<Cls(Whitespace, "+")>>),
      Opt(Lit(<<"a","s","y","n","c">>) \o <<Cls(Whitespace, "+")>>)>>
    \o Lit(method_name)
    \o <<NotCls({"{"}, "*"), Cls({"{"}, "1")>>

\* the pattern with \s* for \s+ after the modifiers
PatternLooseModifiers(method_name) ==
    <<Bol, Cls(Whitespace, "*"),
      Opt(Lit(<<"p","r","i","v","a","t","e">>) \o <<Cls(Whitespace, "*")>>),
      Opt(Lit(<<"a","s","y","n","c">>) \o <<Cls(Whitespace, "*")>>)>>
    \o Lit(method_name)
    \o <<Cls(Whitespace, "*"), Cls({"("}, "1"), NotCls({"{"}, "*"), Cls({"{"}, "1")>>

\* rf'^\s*(?:private\s+)?(?:async\s+)?{method_name}\s*\([^{{]*\{{'
pattern(method_name) ==
    <<Bol, Cls(Whitespace, "*"),
      Opt(Lit(<<"p","r","i","v","a","t","e">>) \o <<Cls(Whitespace, "+")>>),
      Opt(Lit(<<"a","s","y","n","c">>) \o <<Cls(Whitespace, "+")>>)>>
    \o Lit(method_name)
    \o <<Cls(Whitespace, "*"), Cls({"("}, "1"), NotCls({"{"}, "*"), Cls({"{"}, "1")>>

\* re.search(pattern, content, re.MULTILINE)
FindMethod(text, method_name) == Search(pattern(method_name), text, 0)

\* Python's False, as the value of in_string outside every string
NotInString == ""

\* the backquote character, which a TLA+ string cannot hold
Backquote == "BACKQUOTE"

\* ['"', "'", '`'] of line 45
Quotes == {"\"", "'", Backquote}

\* the state of the scan when it starts, on the opening brace (lines 33-36)
ScanStart(match) ==
    [i |-> match.end - 1, brace_count |-> 0, in_string |-> NotInString,
     escape_next |-> FALSE]

\* ScanChar without the test of line 49: braces count inside strings too
ScanCharBracesInStrings(st, char) ==
    LET scanned ==
            IF st.escape_next THEN [st EXCEPT !.escape_next = FALSE]
            ELSE IF char = "\\" THEN [st EXCEPT !.escape_next = TRUE]
            ELSE IF char \in Quotes /\ st.in_string = NotInString
                 THEN [st EXCEPT !.in_string = char]
            ELSE IF char = st.in_string THEN [st EXCEPT !.in_string = NotInString]
            ELSE IF char = "{" THEN [st EXCEPT !.brace_count = @ + 1]
            ELSE IF char = "}" THEN [st EXCEPT !.brace_count = @ - 1]
            ELSE st
    IN  [scanned EXCEPT !.i = st.i + 1]

\* ScanChar with `elif in_string:` for line 48: any quote ends a string
ScanCharAnyQuoteCloses(st, char) ==
    LET scanned ==
            IF st.escape_next THEN [st EXCEPT !.escape_next = FALSE]
            ELSE IF char = "\\" THEN [st EXCEPT !.escape_next = TRUE]
            ELSE IF char \in Quotes /\ st.in_string = NotInString
                 THEN [st EXCEPT !.in_string = char]
            ELSE IF char \in Quotes THEN [st EXCEPT !.in_string = NotInString]
            ELSE IF st.in_string = NotInString
                 THEN IF char = "{" THEN [st EXCEPT !.brace_count = @ + 1]
                      ELSE IF char = "}" THEN [st EXCEPT !.brace_count = @ - 1]
                      ELSE st
            ELSE st
    IN  [scanned EXCEPT !.i = st.i + 1]

\* ScanChar with line 68 moved under the branch of line 49: i grows only on
\* a character met outside every string
ScanCharAdvancesInCodeOnly(st, char) ==
    IF st.escape_next THEN [st EXCEPT !.escape_next = FALSE]
    ELSE IF char = "\\" THEN [st EXCEPT !.escape_next = TRUE]
    ELSE IF char \in Quotes /\ st.in_string = NotInString
         THEN [st EXCEPT !.in_string = char]
    ELSE IF char = st.in_string THEN [st EXCEPT !.in_string = NotInString]
    ELSE IF st.in_string = NotInString
         THEN IF char = "{" THEN [st EXCEPT !.brace_count = @ + 1, !.i = @ + 1]
              ELSE IF char = "}" THEN [st EXCEPT !.brace_count = @ - 1, !.i = @ + 1]
              ELSE [st EXCEPT !.i = @ + 1]
    ELSE st

\* one iteration of the loop of line 38 on character char that does not
\* return, lines 39-53 and 68: the new escape_next, in_string, brace_count
\* and i
ScanChar(st, char) ==
    LET scanned ==
            IF st.escape_next THEN [st EXCEPT !.escape_next = FALSE]
            ELSE IF char = "\\" THEN [st EXCEPT !.escape_next = TRUE]
            ELSE IF char \in Quotes /\ st.in_string = NotInString
                 THEN [st EXCEPT !.in_string = char]
            ELSE IF char = st.in_string THEN [st EXCEPT !.in_string = NotInString]
            ELSE IF st.in_string = NotInString
                 THEN IF char = "{" THEN [st EXCEPT !.brace_count = @ + 1]
                      ELSE IF char = "}" THEN [st EXCEPT !.brace_count = @ - 1]
                      ELSE st
            ELSE st
    IN  [scanned EXCEPT !.i = st.i + 1]

\* the iteration reaches line 54 and finds brace_count = 0: char is the
\* closing brace
ClosesMethod(st, char) ==
    /\ char = "}"
    /\ ScanChar(st, char).brace_count = st.brace_count - 1
    /\ ScanChar(st, char).brace_count = 0

\* lines 59-60 left out: end_pos stays right after the closing brace
SkipNothing(text, end_pos) == end_pos

\* lines 59-60: end_pos moved over the white space that follows
RECURSIVE SkipTrailing(_, _)
SkipTrailing(text, end_pos) ==
    IF end_pos < Len(text) /\ At(text, end_pos) \in {" ", "\n", "\r", "\t"}
    THEN SkipTrailing(text, end_pos + 1)
    ELSE end_pos

\* line 56 and lines 59-60: end_pos for the closing brace at offset k
EndPos(text, k) == SkipTrailing(text, k + 1)

\* f"  // REMOVED: {method_name} method - flows/workflows are deprecated\n"
replacement(method_name) ==
    <<" "," ","/","/"," ","R","E","M","O","V","E","D",":"," ">>
    \o method_name
    \o <<" ","m","e","t","h","o","d"," ","-"," ","f","l","o","w","s","/",
         "w","o","r","k","f","l","o","w","s"," ","a","r","e"," ",
         "d","e","p","r","e","c","a","t","e","d","\n">>

\* replacement + content[end_pos:], the text before start_pos left out
NewContentWithoutPrefix(text, method_name, start, end_pos) ==
    replacement(method_name) \o Slice(text, end_pos, Len(text))

\* content[:start_pos] + replacement + content[end_pos:]
new_content(text, method_name, start, end_pos) ==
    Slice(text, 0, start) \o replacement(method_name)
    \o Slice(text, end_pos, Len(text))

\* a remove_method that returns no text on the paths that replace nothing
ReturnsNothing(text) == <<>>

\* line 28: what remove_method returns when the search finds nothing
NotFoundResult(text) == text

\* a remove_method that cuts the text at its end on the path of line 71
ReturnsTruncated(text) == SubSeq(text, 1, Len(text) - 1)

\* line 71: what remove_method returns when the loop runs off the text
NoEndResult(text) == text

\* the messages of lines 27, 65 and 70
NotFoundMsg(method_name) ==
    [kind |-> "not found", method |-> method_name, first |-> 0, last |-> 0]

RemovedMsg(text, method_name, start, end_pos) ==
    [kind |-> "removed", method |-> method_name,
     first |-> CountNewlines(text, start) + 1,
     last |-> CountNewlines(text, end_pos) + 1]

NoEndMsg(method_name) ==
    [kind |-> "no end", method |-> method_name, first |-> 0, last |-> 0]

\* the loop of lines 38-68 run from state st: the offset of the closing
\* brace it returns on, or -1 when it runs off the text
RECURSIVE ClosingBrace(_, _)
ClosingBrace(text, st) ==
    IF st.i >= Len(text) THEN -1
    ELSE IF ClosesMethod(st, At(text, st.i)) THEN st.i
    ELSE ClosingBrace(text, ScanChar(st, At(text, st.i)))

NoSpan == [start |-> -1, end |-> -1]

\* start_pos and end_pos of the text remove_method replaces, or NoSpan when
\* it returns the text as it is
MethodSpan(text, method_name) ==
    LET match == FindMethod(text, method_name)
    IN  IF match = NoMatch THEN NoSpan
        ELSE LET b == ClosingBrace(text, ScanStart(match))
             IN  IF b = -1 THEN NoSpan
                 ELSE [start |-> match.start, end |-> EndPos(text, b)]

\* remove_method(content, method_name), lines 19-71, as a function
remove_method(text, method_name) ==
    LET match == FindMethod(text, method_name)
    IN  IF match = NoMatch THEN NotFoundResult(text)
        ELSE IF ClosingBrace(text, ScanStart(match)) = -1 THEN NoEndResult(text)
        ELSE new_content(text, method_name, MethodSpan(text, method_name).start,
                         MethodSpan(text, method_name).end)

\* the loop of lines 74-75 over the methods from index k on
RECURSIVE RemoveAll(_, _, _)
RemoveAll(text, methods, k) ==
    IF k > Len(methods) THEN text
    ELSE RemoveAll(remove_method(text, methods[k]), methods, k + 1)

-----------------------------------------------------------------------------
(* remove_flow_methods.py, lines 77-95: the substitutions, in order.  Each  *)
(* is a pattern and the text put in place of every match; str.replace       *)
(* (lines 94-95) is the substitution of a literal pattern.                  *)

AwaitDeployFlow ==
    <<"a","w","a","i","t"," ","t","h","i","s",".">> \o deployFlow \o <<"(">>

FlowDeploymentRemoved ==
    <<"/","/"," ","F","l","o","w"," ","d","e","p","l","o","y","m","e","n","t",
      " ","r","e","m","o","v","e","d">>

\* line 78: r"'widget',\s*'workflow',\s*'application'"
Sub78 ==
    [pat |-> Lit(<<"'","w","i","d","g","e","t","'",",">>)
             \o <<Cls(Whitespace, "*")>>
             \o Lit(<<"'","w","o","r","k","f","l","o","w","'",",">>)
             \o <<Cls(Whitespace, "*")>>
             \o Lit(<<"'","a","p","p","l","i","c","a","t","i","o","n","'">>),
     repl |-> <<"'","w","i","d","g","e","t","'",","," ",
                "'","a","p","p","l","i","c","a","t","i","o","n","'">>]

\* line 79: r'"widget",\s*"workflow",\s*"application"'
Sub79 ==
    [pat |-> Lit(<<"\"","w","i","d","g","e","t","\"",",">>)
             \o <<Cls(Whitespace, "*")>>
             \o Lit(<<"\"","w","o","r","k","f","l","o","w","\"",",">>)
             \o <<Cls(Whitespace, "*")>>
             \o Lit(<<"\"","a","p","p","l","i","c","a","t","i","o","n","\"">>),
     repl |-> <<"\"","w","i","d","g","e","t","\"",","," ",
                "\"","a","p","p","l","i","c","a","t","i","o","n","\"">>]

\* line 82: r"\s*'flow':\s*'sys_hub_flow',?\n?"
Sub82 ==
    [pat |-> <<Cls(Whitespace, "*")>>
             \o Lit(<<"'","f","l","o","w","'",":">>)
             \o <<Cls(Whitespace, "*")>>
             \o Lit(<<"'","s","y","s","_","h","u","b","_","f","l","o","w","'">>)
             \o <<Cls({","}, "?"), Cls({"\n"}, "?")>>,
     repl |-> <<>>]

\* line 83: r"\s*'workflow':\s*'wf_workflow',?\n?"
Sub83 ==
    [pat |-> <<Cls(Whitespace, "*")>>
             \o Lit(<<"'","w","o","r","k","f","l","o","w","'",":">>)
             \o <<Cls(Whitespace, "*")>>
             \o Lit(<<"'","w","f","_","w","o","r","k","f","l","o","w","'">>)
             \o <<Cls({","}, "?"), Cls({"\n"}, "?")>>,
     repl |-> <<>>]

\* line 86: r"case\s+'subflow':[^}]*?break;" (re.DOTALL; the pattern has no dot)
Sub86 ==
    [pat |-> Lit(<<"c","a","s","e">>)
             \o <<Cls(Whitespace, "+")>>
             \o Lit(<<"'","s","u","b","f","l","o","w","'",":">>)
             \o <<NotCls({"}"}, "*?")>>
             \o Lit(<<"b","r","e","a","k",";">>),
     repl |-> <<>>]

\* line 87: r'flowType === .subflow.' (a dot is any character but a newline)
Sub87 ==
    [pat |-> Lit(<<"f","l","o","w","T","y","p","e"," ","=","=","="," ">>)
             \o <<NotCls({"\n"}, "1")>>
             \o Lit(<<"s","u","b","f","l","o","w">>)
             \o <<NotCls({"\n"}, "1")>>,
     repl |-> <<"f","a","l","s","e">>]

\* line 90: r"result = await this\.deployFlow\([^)]*\);?"
Sub90 ==
    [pat |-> Lit(<<"r","e","s","u","l","t"," ","="," ">> \o AwaitDeployFlow)
             \o <<NotCls({")"}, "*"), Cls({")"}, "1"), Cls({";"}, "?")>>,
     repl |-> FlowDeploymentRemoved]

\* line 91: r"await this\.deployFlow\([^)]*\);?"
Sub91 ==
    [pat |-> Lit(AwaitDeployFlow)
             \o <<NotCls({")"}, "*"), Cls({")"}, "1"), Cls({";"}, "?")>>,
     repl |-> FlowDeploymentRemoved]

\* line 94: replace('widgets, workflows, applications', 'widgets, applications')
Replace94 ==
    [pat |-> Lit(<<"w","i","d","g","e","t","s",","," ","w","o","r","k","f","l",
                   "o","w","s",","," ","a","p","p","l","i","c","a","t","i","o",
                   "n","s">>),
     repl |-> <<"w","i","d","g","e","t","s",","," ","a","p","p","l","i","c",
                "a","t","i","o","n","s">>]

\* line 95: replace('(widgets, workflows, applications)', '(widgets, applications)')
Replace95 ==
    [pat |-> Lit(<<"(","w","i","d","g","e","t","s",","," ","w","o","r","k","f",
                   "l","o","w","s",","," ","a","p","p","l","i","c","a","t","i",
                   "o","n","s",")">>),
     repl |-> <<"(","w","i","d","g","e","t","s",","," ","a","p","p","l","i",
                "c","a","t","i","o","n","s",")">>]

\* the statements of lines 78-95, each named by its line, in the order the
\* script runs them
Substitutions == <<78, 79, 82, 83, 86, 87, 90, 91, 94, 95>>

StatementAt(line) ==
    CASE line = 78 -> Sub78
      [] line = 79 -> Sub79
      [] line = 82 -> Sub82
      [] line = 83 -> Sub83
      [] line = 86 -> Sub86
      [] line = 87 -> Sub87
      [] line = 90 -> Sub90
      [] line = 91 -> Sub91
      [] line = 94 -> Replace94
      [] line = 95 -> Replace95

\* the statement of one line applied to text
ApplySubstitution(text, line) ==
    Sub(StatementAt(line).pat, StatementAt(line).repl, text)

\* the statements of lines 78-95 whatever list is asked for
RECURSIVE ApplyFixed(_, _, _)
ApplyFixed(text, subs, k) ==
    IF k > Len(Substitutions) THEN text
    ELSE ApplyFixed(ApplySubstitution(text, Substitutions[k]), subs, k + 1)

\* the statements of subs from index k on, applied in order
RECURSIVE ApplyAll(_, _, _)
ApplyAll(text, subs, k) ==
    IF k > Len(subs) THEN text
    ELSE ApplyAll(ApplySubstitution(text, subs[k]), subs, k + 1)

\* lines 73-95 as a function of the text read: the removal loop, then the
\* substitutions
Transform(text, methods, subs) == ApplyAll(RemoveAll(text, methods, 1), subs, 1)

-----------------------------------------------------------------------------
(* The texts the script is run on, and the lists it is run with.  A text is *)
(* either one deployFlow method whose body is any sequence of at most       *)
(* MaxBody characters of BodyChars, or two pieces of Pieces side by side or *)
(* one inside the body of a deployFlow method.                              *)

SeqsUpTo(S, n) == UNION {[1..k -> S] : k \in 0..n}

BodyChars == {"{", "}", "'", "\"", Backquote, "\\", "x"}

Empty == <<"(", ")", "{", "}">>

BodyTexts ==
    {deployFlow \o <<"(", ")", "{">> \o body \o tail :
        body \in SeqsUpTo(BodyChars, MaxBody),
        tail \in {<<"}", " ", "\n", "x">>}}

Pieces ==
    {<<>>,
     <<"x">>,
     <<"'">>,
     <<"{", "}">>,
     deployFlow \o Empty,
     validateFlowDefinition \o Empty,
     <<"p","r","i","v","a","t","e"," ","a","s","y","n","c"," ">> \o deployFlow
        \o <<"(", "a", ")", " ", "{", "}">>,
     <<"a","s","y","n","c","\n">> \o validateFlowDefinition
        \o <<" ", "(", ")", "{", "{", "}", "}">>,
     deployFlow \o <<"x">> \o Empty,
     <<"x">> \o deployFlow \o Empty,
     <<"p","r","i","v","a","t","e">> \o deployFlow \o Empty,
     deployFlow \o <<"(", "'", "{", "'", ")", "{", "}">>,
     deployFlow \o <<"(", "x", ")", ";">>,
     deployFlow \o <<"(", ")", "{">>,
     deployFlow \o <<"{", "}">>,
     validateFlowDefinition \o <<"(", ")", "{", "'", "}", "'", "}">>,
     AwaitDeployFlow \o <<"x", ")", ";">>,
     <<"r","e","s","u","l","t"," ","="," ">> \o AwaitDeployFlow \o <<")">>,
     <<"c","a","s","e"," ","'","s","u","b","f","l","o","w","'",":","x",";",
       "b","r","e","a","k",";">>}

Separators == {<<>>, <<" ">>, <<"\n">>}

PairTexts == {a \o sep \o b : a \in Pieces, sep \in Separators, b \in Pieces}

NestedTexts ==
    {deployFlow \o <<"(", ")", "{">> \o sep \o a \o sep \o <<"}">> :
        sep \in Separators, a \in Pieces}

\* a method named foo whose body holds a closing brace in a string, followed
\* on the same line by a function bar; and the same behind the keyword
\* `function`
foo == <<"f", "o", "o">>

FunctionBar ==
    <<"f","u","n","c","t","i","o","n"," ","b","a","r","(",")"," ","{","}">>

FooText ==
    foo \o <<"(",")"," ","{"," ","r","e","t","u","r","n"," ","'","}","'",";",
             " ","}">> \o <<" ">> \o FunctionBar

FunctionFooText == <<"f","u","n","c","t","i","o","n"," ">> \o FooText

\* a deployFlow method on a line of its own between `case 'subflow':` and
\* `break;`
SubflowText ==
    <<"c","a","s","e"," ","'","s","u","b","f","l","o","w","'",":","\n">>
    \o deployFlow \o Empty \o <<"\n","b","r","e","a","k",";">>

\* the lists the removal loop is run with
MethodLists ==
    {<<>>, <<deployFlow>>, <<validateFlowDefinition, deployFlow>>,
     MethodsToRemove}

Runs ==
    [text : BodyTexts, methods : {<<deployFlow>>},
     subs : {Substitutions}]
    \cup [text : PairTexts \cup NestedTexts, methods : MethodLists,
          subs : {Substitutions}]
    \cup [text : BodyTexts \cup PairTexts \cup NestedTexts, methods : {<<>>},
          subs : {<<>>}]
    \cup [text : {FooText, FunctionFooText}, methods : {<<foo>>},
          subs : {Substitutions}]
    \cup [text : {SubflowText}, methods : {<<deployFlow>>},
          subs : {Substitutions}]

-----------------------------------------------------------------------------
(* The script as a state machine                                           *)

ScanIdle ==
    /\ start_pos' = 0
    /\ i' = 0
    /\ brace_count' = 0
    /\ in_string' = NotInString
    /\ escape_next' = FALSE

Init ==
    /\ \E rn \in Runs :
        /\ file = rn.text
        /\ methods_to_remove = rn.methods
        /\ rules = rn.subs
    /\ content = <<>>
    /\ pc = "read"
    /\ run = 1
    /\ method = 0
    /\ start_pos = 0
    /\ i = 0
    /\ brace_count = 0
    /\ in_string = NotInString
    /\ escape_next = FALSE
    /\ out = <<>>

\* lines 6-7: content = f.read()
Read ==
    /\ pc = "read"
    /\ content' = file
    /\ pc' = "loop"
    /\ method' = 0
    /\ out' = <<>>
    /\ UNCHANGED <<file, methods_to_remove, rules, run, start_pos, i,
                   brace_count, in_string, escape_next>>

\* lines 74-75 and 22-36: the loop calls remove_method, the search finds the
\* declaration and the scan is set on its opening brace
LocateFound ==
    /\ pc = "loop"
    /\ method < Len(methods_to_remove)
    /\ LET match == FindMethod(content, methods_to_remove[method + 1])
       IN  /\ match # NoMatch
           /\ start_pos' = match.start
           /\ i' = ScanStart(match).i
           /\ brace_count' = ScanStart(match).brace_count
           /\ in_string' = ScanStart(match).in_string
           /\ escape_next' = ScanStart(match).escape_next
    /\ pc' = "scan"
    /\ UNCHANGED <<file, content, methods_to_remove, rules, run, method,
                   out>>

\* lines 74-75 and 22-28: the search finds nothing, remove_method prints and
\* returns, the loop goes on
LocateNotFound ==
    /\ pc = "loop"
    /\ method < Len(methods_to_remove)
    /\ FindMethod(content, methods_to_remove[method + 1]) = NoMatch
    /\ content' = NotFoundResult(content)
    /\ out' = Append(out, NotFoundMsg(methods_to_remove[method + 1]))
    /\ method' = method + 1
    /\ UNCHANGED <<file, methods_to_remove, rules, pc, run, start_pos, i,
                   brace_count, in_string, escape_next>>

ScanState ==
    [i |-> i, brace_count |-> brace_count, in_string |-> in_string,
     escape_next |-> escape_next]

\* lines 38-68: one iteration that does not return
ScanStep ==
    /\ pc = "scan"
    /\ i < Len(content)
    /\ ~ClosesMethod(ScanState, At(content, i))
    /\ LET st == ScanChar(ScanState, At(content, i))
       IN  /\ brace_count' = st.brace_count
           /\ in_string' = st.in_string
           /\ escape_next' = st.escape_next
           /\ i' = st.i
    /\ UNCHANGED <<file, content, methods_to_remove, rules, pc, run, method,
                   start_pos, out>>

\* lines 54-66: the iteration on the closing brace; the method is replaced
\* and remove_method returns
ScanClose ==
    /\ pc = "scan"
    /\ i < Len(content)
    /\ ClosesMethod(ScanState, At(content, i))
    /\ LET name == methods_to_remove[method + 1]
           end_pos == EndPos(content, i)
       IN  /\ content' = new_content(content, name, start_pos, end_pos)
           /\ out' = Append(out, RemovedMsg(content, name, start_pos, end_pos))
    /\ method' = method + 1
    /\ pc' = "loop"
    /\ ScanIdle
    /\ UNCHANGED <<file, methods_to_remove, rules, run>>

\* lines 70-71: the loop ran off the end of the text
ScanFail ==
    /\ pc = "scan"
    /\ i >= Len(content)
    /\ content' = NoEndResult(content)
    /\ out' = Append(out, NoEndMsg(methods_to_remove[method + 1]))
    /\ method' = method + 1
    /\ pc' = "loop"
    /\ ScanIdle
    /\ UNCHANGED <<file, methods_to_remove, rules, run>>

\* the loop of line 74 is over
LoopEnd ==
    /\ pc = "loop"
    /\ method = Len(methods_to_remove)
    /\ pc' = "subs"
    /\ UNCHANGED <<file, content, methods_to_remove, rules, run, method,
                   start_pos, i, brace_count, in_string, escape_next, out>>

\* lines 78-95: the substitutions, one after the other
Substitute ==
    /\ pc = "subs"
    /\ content' = ApplyAll(content, rules, 1)
    /\ pc' = "write"
    /\ UNCHANGED <<file, methods_to_remove, rules, run, method, start_pos, i,
                   brace_count, in_string, escape_next, out>>

\* what f.write(content) leaves in the file
Written(text) == text

\* lines 98-99: the text is written back
Write ==
    /\ pc = "write"
    /\ file' = Written(content)
    /\ pc' = "done"
    /\ UNCHANGED <<content, methods_to_remove, rules, run, method, start_pos,
                   i, brace_count, in_string, escape_next, out>>

\* the script is started again on the file it wrote
Rerun ==
    /\ pc = "done"
    /\ run < MaxRuns
    /\ run' = run + 1
    /\ pc' = "read"
    /\ UNCHANGED <<file, content, methods_to_remove, rules, method, start_pos,
                   i, brace_count, in_string, escape_next, out>>

Next ==
    \/ Read
    \/ LocateFound
    \/ LocateNotFound
    \/ ScanStep
    \/ ScanClose
    \/ ScanFail
    \/ LoopEnd
    \/ Substitute
    \/ Write
    \/ Rerun

Spec == Init /\ [][Next]_vars

-----------------------------------------------------------------------------
(* The text as the claims read it: which characters are escaped, which lie  *)
(* inside a string literal, and where the braces of the code are.  These    *)
(* are defined on the text alone, from the opening brace `open` of a        *)
(* declaration on.                                                          *)

\* the opening brace of the declaration the scan is on
OpenBrace == FindMethod(content, methods_to_remove[method + 1]).end - 1

\* number of backslashes that stand immediately before offset j, back to open
RECURSIVE BackslashRun(_, _, _)
BackslashRun(text, open, j) ==
    IF j > open /\ At(text, j - 1) = "\\"
    THEN 1 + BackslashRun(text, open, j - 1)
    ELSE 0

\* the character at offset j is escaped: an odd number of backslashes stands
\* before it
Escaped(text, open, j) == BackslashRun(text, open, j) % 2 = 1

\* the quote of the string literal that is open just before offset j, or
\* NotInString: a literal opens at an unescaped quote outside every literal
\* and closes at the next unescaped occurrence of the same quote
RECURSIVE LiteralAt(_, _, _)
LiteralAt(text, open, j) ==
    IF j <= open THEN NotInString
    ELSE LET q == LiteralAt(text, open, j - 1)
             c == At(text, j - 1)
         IN  IF Escaped(text, open, j - 1) \/ c = "\\" THEN q
             ELSE IF q = NotInString
                  THEN IF c \in Quotes THEN c ELSE NotInString
             ELSE IF c = q THEN NotInString
             ELSE q

\* the character at offset j is the brace b, standing in code: outside every
\* string literal and not escaped
CodeBrace(text, open, j, b) ==
    /\ At(text, j) = b
    /\ ~Escaped(text, open, j)
    /\ LiteralAt(text, open, j) = NotInString

\* opening minus closing braces of the code at the offsets open .. j-1
CodeDepth(text, open, j) ==
    Cardinality({k \in open..(j - 1) : CodeBrace(text, open, k, "{")})
    - Cardinality({k \in open..(j - 1) : CodeBrace(text, open, k, "}")})

\* offset j holds the closing brace that matches the brace at open
MatchingBrace(text, open, j) ==
    /\ CodeBrace(text, open, j, "}")
    /\ CodeDepth(text, open, j + 1) = 0
    /\ \A k \in (open + 1)..j : CodeDepth(text, open, k) > 0

-----------------------------------------------------------------------------
(* C1: A brace inside a string literal never counts: all along the scan     *)
(* the depth counter is the number of opening minus closing braces of the   *)
(* code passed so far, whatever braces the string literals passed hold, and *)
(* the scan returns on a character exactly when that character is the       *)
(* closing brace that matches the declaration's opening brace.              *)
C1_BracesInStringsIgnored ==
    pc = "scan" =>
        /\ brace_count = CodeDepth(content, OpenBrace, i)
        /\ i < Len(content) =>
              (ClosesMethod(ScanState, At(content, i))
                  <=> MatchingBrace(content, OpenBrace, i))

\* the scan stands on a closing brace inside a string literal, one level
\* deep, in a method that closes further on
C1_Witness ==
    /\ pc = "scan"
    /\ i < Len(content)
    /\ in_string # NotInString
    /\ At(content, i) = "}"
    /\ brace_count = 1
    /\ \E j \in (i + 1)..(Len(content) - 1) :
          MatchingBrace(content, OpenBrace, j)

-----------------------------------------------------------------------------
(* C2: the span an excision replaces                                       *)

\* the step is an excision: remove_method returns the text with the method
\* replaced
Excises ==
    /\ pc = "scan"
    /\ pc' = "loop"
    /\ out' # out
    /\ out'[Len(out')].kind = "removed"

\* the first offset from k on that holds no white space
RECURSIVE FirstNonSpace(_, _)
FirstNonSpace(text, k) ==
    IF k < Len(text) /\ At(text, k) \in Whitespace
    THEN FirstNonSpace(text, k + 1)
    ELSE k

\* text holds the word w at offset k
HasAt(text, k, w) ==
    /\ k + Len(w) <= Len(text)
    /\ Slice(text, k, k + Len(w)) = w

\* offset k is the beginning of a line
LineStart(text, k) == k = 0 \/ At(text, k - 1) = "\n"

\* the beginning of the span for a declaration whose first character is at
\* offset d: the first beginning of a line from which only white space
\* leads to d
SpanStart(text, d) ==
    CHOOSE k \in 0..d :
        /\ LineStart(text, k)
        /\ \A j \in k..(d - 1) : At(text, j) \in Whitespace
        /\ \A h \in 0..(k - 1) :
              ~(LineStart(text, h) /\ \A j \in h..(d - 1) : At(text, j) \in Whitespace)

\* the end of the span for a closing brace at offset b: the first offset
\* after b that holds no space, tab or line break (or the end of the text)
SpanEnd(text, b) ==
    CHOOSE e \in (b + 1)..Len(text) :
        /\ \A j \in (b + 1)..(e - 1) : At(text, j) \in {" ", "\t", "\n", "\r"}
        /\ e = Len(text) \/ At(text, e) \notin {" ", "\t", "\n", "\r"}

-----------------------------------------------------------------------------
(* C3: two edits that touch the same region                                *)

\* the spans [s1.start, s1.end) and [s2.start, s2.end) share a character
Overlap(s1, s2) ==
    /\ s1 # NoSpan
    /\ s2 # NoSpan
    /\ s1.start < s2.end
    /\ s2.start < s1.end

\* the entries of out about method_name, of one kind
Reports(method_name, kind) ==
    {k \in 1..Len(out) : out[k].method = method_name /\ out[k].kind = kind}

(* C3 as stated: when the spans of two requested methods overlap in the     *)
(* text read, the one later in the list is dropped: it is not removed, one  *)
(* diagnostic reports it, and the result is that of the other edits alone.  *)
C3_LaterOverlappingEditDropped ==
    (pc = "subs" /\ run = 1) =>
        \A p, q \in 1..Len(methods_to_remove) :
            (/\ p < q
             /\ Overlap(MethodSpan(file, methods_to_remove[p]),
                        MethodSpan(file, methods_to_remove[q])))
            => /\ Reports(methods_to_remove[q], "removed") = {}
               /\ Cardinality(Reports(methods_to_remove[q], "not found")
                              \cup Reports(methods_to_remove[q], "no end")) = 1

-----------------------------------------------------------------------------
(* C4: the script run a second time                                        *)

\* the characters an identifier is made of
IdentifierChars ==
    {"a", "b", "c", "d", "e", "f", "g", "h", "i", "j", "k", "l", "m",
     "n", "o", "p", "q", "r", "s", "t", "u", "v", "w", "x", "y", "z",
     "A", "B", "C", "D", "E", "F", "G", "H", "I", "J", "K", "L", "M",
     "N", "O", "P", "Q", "R", "S", "T", "U", "V", "W", "X", "Y", "Z",
     "0", "1", "2", "3", "4", "5", "6", "7", "8", "9", "_", "$"}

\* text holds the word w somewhere
Contains(text, w) == \E k \in 0..(Len(text) - Len(w)) : HasAt(text, k, w)

\* text holds the name as a whole identifier followed by a parameter list:
\* the name, no identifier character before it, and after it a parenthesis,
\* white space allowed in between
DeclaredIn(text, name) ==
    \E k \in 0..(Len(text) - Len(name)) :
        /\ HasAt(text, k, name)
        /\ k = 0 \/ At(text, k - 1) \notin IdentifierChars
        /\ LET h == FirstNonSpace(text, k + Len(name))
           IN  h < Len(text) /\ At(text, h) = "("

NoDeclarationLeft(text) ==
    \A k \in 1..Len(methods_to_remove) : ~DeclaredIn(text, methods_to_remove[k])

(* C4: when the text a run wrote holds none of the requested names followed *)
(* by a parameter list, the removal loop of the next run on that text       *)
(* reports every name as not found and leaves the text as it read it: the   *)
(* markers, which hold the names, are not taken for declarations.           *)
C4_SecondRunFindsNothing ==
    (run > 1 /\ pc = "subs" /\ NoDeclarationLeft(file)) =>
        /\ content = file
        /\ Len(out) = Len(methods_to_remove)
        /\ \A k \in 1..Len(out) : out[k].kind = "not found"

\* the removal loop of a second run is over, on a text that holds the marker
\* of a method the first run removed and no declaration
C4_Witness ==
    /\ run = 2
    /\ pc = "subs"
    /\ NoDeclarationLeft(file)
    /\ \E k \in 1..Len(methods_to_remove) :
          Contains(file, replacement(methods_to_remove[k]))

-----------------------------------------------------------------------------
(* C5: a name inside a longer identifier                                   *)

\* every occurrence of the name in text has an identifier character right
\* before or right after it
OnlyInLongerIdentifiers(text, name) ==
    \A k \in 0..(Len(text) - Len(name)) :
        HasAt(text, k, name) =>
            \/ k > 0 /\ At(text, k - 1) \in IdentifierChars
            \/ k + Len(name) < Len(text)
               /\ At(text, k + Len(name)) \in IdentifierChars

(* C5: a name that occurs in the text only inside longer identifiers is     *)
(* never located (the scan never starts for it); when that holds of every   *)
(* requested name the loop reports each as not found and leaves the text    *)
(* unchanged.                                                               *)
C5_NameInsideLongerIdentifier ==
    /\ pc = "scan" =>
          ~OnlyInLongerIdentifiers(content, methods_to_remove[method + 1])
    /\ (pc = "subs"
        /\ \A k \in 1..Len(methods_to_remove) :
              OnlyInLongerIdentifiers(file, methods_to_remove[k]))
       => /\ content = file
          /\ \A k \in 1..Len(out) : out[k].kind = "not found"

\* the loop is over on a text that holds deployFlow as the beginning of one
\* identifier or as the end of another, and not on its own
C5_Witness ==
    /\ pc = "subs"
    /\ run = 1
    /\ methods_to_remove = <<deployFlow>>
    /\ OnlyInLongerIdentifiers(file, deployFlow)
    /\ \/ Contains(file, deployFlow \o <<"x", "(">>)
       \/ Contains(file, <<"x">> \o deployFlow \o <<"(">>)
    /\ out = <<NotFoundMsg(deployFlow)>>

-----------------------------------------------------------------------------
(* C6, C7: a method that is not found, a method with no end                *)

\* the list without its k-th entry
Without(list, k) == SubSeq(list, 1, k - 1) \o SubSeq(list, k + 1, Len(list))

(* C6: when the script has run its loop and its substitutions, for every    *)
(* method reported as not found the text is the one the script produces     *)
(* from the same file with that method taken off the list: the run went on, *)
(* and the other methods and the substitutions did what they do without it. *)
C6_NotFoundIsSkipped ==
    pc = "write" =>
        \A k \in 1..Len(out) :
            out[k].kind = "not found" =>
                content = Transform(file, Without(methods_to_remove, k), rules)

\* a run that did not find its first method, removed a later one, and is
\* about to write
C6_Witness ==
    /\ pc = "write"
    /\ Len(out) >= 2
    /\ out[1].kind = "not found"
    /\ \E k \in 2..Len(out) : out[k].kind = "removed"
    /\ rules = Substitutions

(* C7: the scan reaches the end of the text only with the depth above 0,    *)
(* and for every method reported as having no end the text is the one the   *)
(* script produces from the same file with that method taken off the list:  *)
(* remove_method gave the text back as it was and the loop went on.         *)
C7_NoEndIsSkipped ==
    /\ (pc = "scan" /\ i >= Len(content)) => brace_count > 0
    /\ pc = "write" =>
          \A k \in 1..Len(out) :
              out[k].kind = "no end" =>
                  content = Transform(file, Without(methods_to_remove, k), rules)

\* a run whose first method had no end and whose second method was removed
C7_Witness ==
    /\ pc = "write"
    /\ Len(out) >= 2
    /\ out[1].kind = "no end"
    /\ out[2].kind = "removed"

-----------------------------------------------------------------------------
(* C8: nothing to remove, nothing to substitute                            *)

-----------------------------------------------------------------------------
(* C9: the length of the result                                            *)

SpanLength(sp) == sp.end - sp.start

\* sum of f[k] over the set S of indices
RECURSIVE SumOver(_, _)
SumOver(f, S) ==
    IF S = {} THEN 0
    ELSE LET k == CHOOSE x \in S : TRUE
         IN  f[k] + SumOver(f, S \ {k})

(* C9 as stated: after the removal loop the length of the text is the       *)
(* length of the text read, minus the lengths of the spans of the removed   *)
(* methods measured on the text read, plus the lengths of the markers put   *)
(* in their place.                                                          *)
C9_LengthFromSpansOnInput ==
    (pc = "subs" /\ run = 1) =>
        LET removed == {k \in 1..Len(out) : out[k].kind = "removed"}
            spans == [k \in removed |->
                        SpanLength(MethodSpan(file, methods_to_remove[k]))]
            markers == [k \in removed |->
                          Len(replacement(methods_to_remove[k]))]
        IN  Len(content) = Len(file) - SumOver(spans, removed)
                           + SumOver(markers, removed)

-----------------------------------------------------------------------------
(* C10: where the declaration and its opening brace stand                  *)

(* C10 as stated: a declaration that is located does not begin inside a     *)
(* string literal of the text, and the brace the scan starts on is not      *)
(* inside a string literal, a quoted default value of the parameter list    *)
(* included.                                                                *)
C10_ScanStartsInCode ==
    pc = "scan" =>
        /\ LiteralAt(content, 0, FirstNonSpace(content, start_pos)) = NotInString
        /\ LiteralAt(content, 0, OpenBrace) = NotInString

-----------------------------------------------------------------------------
(* C11: what stands between the name and the opening brace                 *)

\* the offset of the name in the declaration the scan is on: its first
\* occurrence from start_pos on
NameOffset ==
    LET name == methods_to_remove[method + 1]
    IN  CHOOSE k \in start_pos..OpenBrace :
            /\ HasAt(content, k, name)
            /\ \A j \in start_pos..(k - 1) : ~HasAt(content, j, name)

\* the offset of the parenthesis that follows the name
OpenParen ==
    FirstNonSpace(content, NameOffset + Len(methods_to_remove[method + 1]))

(* C11 as stated: in a declaration that is located, the name is followed by *)
(* a parameter list in parentheses and then by the opening brace: a closing *)
(* parenthesis stands between the opening one and the brace, and only white *)
(* space between the two.  A call `deployFlow(x);` with a block further on  *)
(* is not located.                                                          *)
C11_ParameterListThenBrace ==
    pc = "scan" =>
        /\ At(content, OpenParen) = "("
        /\ \E c \in (OpenParen + 1)..(OpenBrace - 1) :
              /\ At(content, c) = ")"
              /\ \A j \in (c + 1)..(OpenBrace - 1) : At(content, j) \in Whitespace

-----------------------------------------------------------------------------
(* C12: several declarations of one name                                   *)

\* the offsets of text at which the pattern of method_name matches
DeclarationsAt(text, method_name) ==
    {k \in 0..Len(text) : MatchAt(pattern(method_name), text, k) # -1}

(* C12: one call of remove_method that excises replaces the first           *)
(* declaration of the name, no declaration matches before it, reports one   *)
(* removal, and leaves in place every declaration of that name that starts  *)
(* at or after the end of the replaced text: it is found again right there, *)
(* moved by the difference of lengths.                                      *)
C12_FirstDeclarationOnly ==
    [][Excises =>
         LET name == methods_to_remove[method + 1]
             moved == Len(content') - Len(content)
         IN  /\ \A k \in DeclarationsAt(content, name) : start_pos <= k
             /\ out' = Append(out, out'[Len(out')])
             /\ \A k \in DeclarationsAt(content, name) :
                   k >= EndPos(content, i)
                   => k + moved \in DeclarationsAt(content', name)]_vars

\* the only call for deployFlow has replaced one declaration, and a second
\* one that the file held further on is still there
C12_Witness ==
    /\ run = 1
    /\ methods_to_remove = <<deployFlow>>
    /\ pc = "subs"
    /\ out = <<[kind |-> "removed", method |-> deployFlow, first |-> 1,
                last |-> 2]>>
    /\ Cardinality(DeclarationsAt(file, deployFlow)) >= 2
    /\ content = replacement(deployFlow) \o deployFlow \o Empty

-----------------------------------------------------------------------------
(* C13: a backslash outside every string                                   *)

(* C13 as stated: while the scan is outside every string, the character it  *)
(* stands on is classified for what it is, whether or not a backslash       *)
(* stands before it: an opening brace adds one to the depth, a closing      *)
(* brace takes one off or ends the scan, a quote opens a string.            *)
C13_BackslashInCodeEscapesNothing ==
    [][(pc = "scan" /\ i < Len(content) /\ in_string = NotInString) =>
         LET char == At(content, i)
         IN  /\ char = "{" => brace_count' = brace_count + 1
             /\ char = "}" => (brace_count' = brace_count - 1 \/ pc' = "loop")
             /\ char \in Quotes => in_string' = char]_vars

-----------------------------------------------------------------------------
(* C14: the text a substitution is matched on                              *)

\* the number of matches re.sub(pat, ...) replaces in s from offset `from` on
RECURSIVE MatchCount(_, _, _)
MatchCount(pat, s, from) ==
    LET mt == Search(pat, s, from)
    IN  IF mt = NoMatch \/ mt.end = mt.start THEN 0
        ELSE 1 + MatchCount(pat, s, mt.end)

\* the text the k-th substitution of the run is applied to, content being
\* the text the removal loop left
TextBefore(k) == ApplyAll(content, SubSeq(rules, 1, k - 1), 1)

(* C14 as stated: every substitution finds, in the text it is applied to,   *)
(* the matches it has in the text read at the start of the run: as many,    *)
(* and none when it has none there, whatever the removals and the earlier   *)
(* substitutions did.                                                       *)
C14_RulesMatchedOnTextRead ==
    pc = "subs" =>
        \A k \in 1..Len(rules) :
            MatchCount(StatementAt(rules[k]).pat, TextBefore(k), 0)
                = MatchCount(StatementAt(rules[k]).pat, file, 0)

-----------------------------------------------------------------------------
(* C15: what an excision leaves as it was                                  *)

(* C15: an excision gives the text before start_pos, the marker, and the    *)
(* text from some offset behind the closing brace on: every character       *)
(* before the span and every character from its end on is in the result,    *)
(* unchanged and in the same order, and the text that was read is not       *)
(* touched.                                                                 *)
C15_ExcisionFrame ==
    [][Excises =>
         LET name == methods_to_remove[method + 1]
         IN  /\ \E e \in (i + 1)..Len(content) :
                   /\ content' = Slice(content, 0, start_pos)
                                 \o replacement(name)
                                 \o Slice(content, e, Len(content))
                   /\ \A j \in 0..(start_pos - 1) :
                         At(content', j) = At(content, j)
                   /\ \A j \in e..(Len(content) - 1) :
                         At(content', j - e + start_pos + Len(replacement(name)))
                             = At(content, j)
             /\ file' = file]_vars

\* validateFlowDefinition has been cut out of the body of deployFlow: the
\* text before it and the brace after it stand around the marker
C15_Witness ==
    /\ pc = "loop"
    /\ method = 1
    /\ out[1].kind = "removed"
    /\ file = deployFlow \o <<"(", ")", "{", "\n">>
              \o validateFlowDefinition \o Empty \o <<"\n", "}">>
    /\ content = deployFlow \o <<"(", ")", "{", "\n">>
                 \o replacement(validateFlowDefinition) \o <<"}">>

-----------------------------------------------------------------------------
(* C16: how a string is entered and left                                   *)

(* C16: along the scan in_string changes in two ways only: from outside     *)
(* every string to the quote the scan stands on, and from a quote to        *)
(* outside every string when the scan stands on that same quote.  Inside a  *)
(* string another quote, a brace or any other character leaves in_string    *)
(* and the depth as they are.                                               *)
C16_StringEnteredAndLeft ==
    [][(pc = "scan" /\ pc' = "scan") =>
         LET char == At(content, i)
         IN  /\ in_string' # in_string =>
                   \/ /\ in_string = NotInString
                      /\ char \in Quotes
                      /\ in_string' = char
                   \/ /\ in_string \in Quotes
                      /\ char = in_string
                      /\ in_string' = NotInString
             /\ (in_string \in Quotes /\ char # in_string) =>
                   /\ in_string' = in_string
                   /\ brace_count' = brace_count]_vars

\* the scan is inside a string opened by an apostrophe and stands on another
\* kind of quote or on a closing brace, with no escape pending
C16_Witness ==
    /\ pc = "scan"
    /\ i < Len(content)
    /\ in_string = "'"
    /\ ~escape_next
    /\ At(content, i) \in {"\"", Backquote, "}"}

-----------------------------------------------------------------------------
(* C17: the scan ends                                                      *)

\* the script run by an interpreter that goes on: a scan that can take a
\* step takes it
FairSpec == Spec /\ WF_vars(ScanStep \/ ScanClose \/ ScanFail)

(* C17: every step that stays in the scan moves i forward by exactly one,   *)
(* within the text, which it does not change; the scan is left only on the  *)
(* closing brace that matches the opening one or at the end of the text;    *)
(* and every scan that starts is left.                                      *)
C17_ScanTerminates ==
    /\ [][(pc = "scan" /\ pc' = "scan") =>
            /\ i' = i + 1
            /\ i' <= Len(content)
            /\ content' = content]_vars
    /\ [][(pc = "scan" /\ pc' # "scan") =>
            \/ i = Len(content)
            \/ i < Len(content) /\ MatchingBrace(content, OpenBrace, i)]_vars
    /\ (pc = "scan") ~> (pc = "loop")

\* a scan has run from the opening brace to the end of the text, over
\* several characters, without finding the closing brace
C17_Witness ==
    /\ pc = "scan"
    /\ i = Len(content)
    /\ i > OpenBrace + 2
    /\ brace_count > 0

-----------------------------------------------------------------------------
(* final_flow_cleanup.py: seven re.sub statements, one after the other, on  *)
(* the text of the file                                                     *)

\* line 10: r'private generateFlowLogicXML\([^{]*\{[^}]*\}[^}]*\}[^}]*\}'
Pattern10 ==
    Lit(<<"p","r","i","v","a","t","e"," ","g","e","n","e","r","a","t","e",
          "F","l","o","w","L","o","g","i","c","X","M","L","(">>)
    \o <<NotCls({"{"}, "*"), Cls({"{"}, "1"),
         NotCls({"}"}, "*"), Cls({"}"}, "1"),
         NotCls({"}"}, "*"), Cls({"}"}, "1"),
         NotCls({"}"}, "*"), Cls({"}"}, "1")>>

\* line 11
Cleanup11 ==
    [pat |-> Pattern10,
     repl |-> <<"/","/"," ","g","e","n","e","r","a","t","e","F","l","o","w",
                "L","o","g","i","c","X","M","L"," ","m","e","t","h","o","d",
                " ","r","e","m","o","v","e","d"," ","-"," ","f","l","o","w",
                "s"," ","d","e","p","r","e","c","a","t","e","d">>]

\* line 15: r'// Flow XML[^}]*sys_hub_flow[^}]*?</update_set_member>'
Pattern15 ==
    Lit(<<"/","/"," ","F","l","o","w"," ","X","M","L">>)
    \o <<NotCls({"}"}, "*")>>
    \o Lit(<<"s","y","s","_","h","u","b","_","f","l","o","w">>)
    \o <<NotCls({"}"}, "*?")>>
    \o Lit(<<"<","/","u","p","d","a","t","e","_","s","e","t","_","m","e",
             "m","b","e","r",">">>)

\* line 16
Cleanup16 ==
    [pat |-> Pattern15,
     repl |-> <<"/","/"," ","F","l","o","w"," ","X","M","L"," ","g","e","n",
                "e","r","a","t","i","o","n"," ","r","e","m","o","v","e","d",
                " ","-"," ","f","l","o","w","s"," ","d","e","p","r","e","c",
                "a","t","e","d">>]

\* line 19: r'const logicXml = this\.generateFlowLogicXML\([^)]*\);'
Cleanup19 ==
    [pat |-> Lit(<<"c","o","n","s","t"," ","l","o","g","i","c","X","m","l",
                   " ","="," ","t","h","i","s",".","g","e","n","e","r","a",
                   "t","e","F","l","o","w","L","o","g","i","c","X","M","L",
                   "(">>)
             \o <<NotCls({")"}, "*")>> \o Lit(<<")", ";">>),
     repl |-> <<"/","/"," ","F","l","o","w"," ","l","o","g","i","c"," ","X",
                "M","L"," ","r","e","m","o","v","e","d">>]

\* line 20: r'xmlParts\.push\(logicXml\);'
Cleanup20 ==
    [pat |-> Lit(<<"x","m","l","P","a","r","t","s",".","p","u","s","h","(",
                   "l","o","g","i","c","X","m","l",")",";">>),
     repl |-> <<"/","/"," ","F","l","o","w"," ","l","o","g","i","c"," ","p",
                "u","s","h"," ","r","e","m","o","v","e","d">>]

\* line 23: r"case 'flow':[^}]*?break;"
Cleanup23 ==
    [pat |-> Lit(<<"c","a","s","e"," ","'","f","l","o","w","'",":">>)
             \o <<NotCls({"}"}, "*?")>> \o Lit(<<"b","r","e","a","k",";">>),
     repl |-> <<"/","/"," ","F","l","o","w"," ","c","a","s","e"," ","r","e",
                "m","o","v","e","d">>]

\* line 24: r"case 'subflow':[^}]*?break;"
Cleanup24 ==
    [pat |-> Lit(<<"c","a","s","e"," ","'","s","u","b","f","l","o","w","'",
                   ":">>)
             \o <<NotCls({"}"}, "*?")>> \o Lit(<<"b","r","e","a","k",";">>),
     repl |-> <<"/","/"," ","S","u","b","f","l","o","w"," ","c","a","s","e",
                " ","r","e","m","o","v","e","d">>]

\* line 27: r"} else if \(args\.type === 'workflow'\) \{[^}]*\}"
Cleanup27 ==
    [pat |-> Lit(<<"}"," ","e","l","s","e"," ","i","f"," ","(","a","r","g",
                   "s",".","t","y","p","e"," ","=","=","="," ","'","w","o",
                   "r","k","f","l","o","w","'",")"," ","{">>)
             \o <<NotCls({"}"}, "*"), Cls({"}"}, "1")>>,
     repl |-> <<"/","/"," ","W","o","r","k","f","l","o","w"," ","v","a","l",
                "i","d","a","t","i","o","n"," ","r","e","m","o","v","e",
                "d">>]

\* the lines of the statements, in the order of the script
CleanupStatements == <<11, 16, 19, 20, 23, 24, 27>>

CleanupStatementAt(line) ==
    CASE line = 11 -> Cleanup11
      [] line = 16 -> Cleanup16
      [] line = 19 -> Cleanup19
      [] line = 20 -> Cleanup20
      [] line = 23 -> Cleanup23
      [] line = 24 -> Cleanup24
      [] line = 27 -> Cleanup27

\* content = re.sub(pattern, replacement, content) of one line
CleanupSub(text, line) ==
    Sub(CleanupStatementAt(line).pat, CleanupStatementAt(line).repl, text)

\* lines 11-27 as a function, from the k-th statement on
RECURSIVE CleanupAll(_, _)
CleanupAll(text, k) ==
    IF k > Len(CleanupStatements) THEN text
    ELSE CleanupAll(CleanupSub(text, CleanupStatements[k]), k + 1)

\* The texts the cleanup is run on: a generateFlowLogicXML method whose body
\* is any sequence of at most MaxBody braces and letters, with or without
\* blocks behind it, and any three of the snippets the statements are about,
\* side by side.
GenerateFlowLogicXML ==
    <<"p","r","i","v","a","t","e"," ","g","e","n","e","r","a","t","e","F",
      "l","o","w","L","o","g","i","c","X","M","L","(",")","{">>

CleanupBodyChars == {"{", "}", "x"}

CleanupTails ==
    {<<>>, <<"x">>, <<"x", "{", "}">>, <<"{", "}", "{", "}">>}

CleanupMethodTexts ==
    {GenerateFlowLogicXML \o body \o <<"}">> \o tail :
        body \in SeqsUpTo(CleanupBodyChars, MaxBody), tail \in CleanupTails}

FlowXmlSnippet ==
    <<"/","/"," ","F","l","o","w"," ","X","M","L"," ","s","y","s","_","h",
      "u","b","_","f","l","o","w"," ","<","/","u","p","d","a","t","e","_",
      "s","e","t","_","m","e","m","b","e","r",">">>

SysHubFlowSnippet ==
    <<" ","s","y","s","_","h","u","b","_","f","l","o","w"," ","<","/","u",
      "p","d","a","t","e","_","s","e","t","_","m","e","m","b","e","r",">">>

WorkflowBlockSnippet ==
    <<"}"," ","e","l","s","e"," ","i","f"," ","(","a","r","g","s",".","t",
      "y","p","e"," ","=","=","="," ","'","w","o","r","k","f","l","o","w",
      "'",")"," ","{","}">>

CleanupSnippets ==
    {<<>>,
     FlowXmlSnippet,
     SysHubFlowSnippet,
     WorkflowBlockSnippet,
     <<"c","o","n","s","t"," ","l","o","g","i","c","X","m","l"," ","="," ",
       "t","h","i","s",".","g","e","n","e","r","a","t","e","F","l","o","w",
       "L","o","g","i","c","X","M","L","(","x",")",";">>,
     <<"x","m","l","P","a","r","t","s",".","p","u","s","h","(","l","o","g",
       "i","c","X","m","l",")",";">>,
     <<"c","a","s","e"," ","'","f","l","o","w","'",":","x",";","b","r","e",
       "a","k",";">>,
     <<"c","a","s","e"," ","'","s","u","b","f","l","o","w","'",":","x",";",
       "b","r","e","a","k",";">>}

CleanupSnippetTexts ==
    {a \o b \o c : a \in CleanupSnippets, b \in CleanupSnippets,
                   c \in CleanupSnippets}

CleanupTexts == CleanupMethodTexts \cup CleanupSnippetTexts

\* the state before the script starts: the file holds one of the texts
CleanupInit ==
    /\ file \in CleanupTexts
    /\ content = <<>>
    /\ methods_to_remove = <<>>
    /\ rules = CleanupStatements
    /\ pc = "cleanup read"
    /\ run = 1
    /\ method = 0
    /\ start_pos = 0
    /\ i = 0
    /\ brace_count = 0
    /\ in_string = NotInString
    /\ escape_next = FALSE
    /\ out = <<>>

\* what the cleanup never assigns
CleanupFrame ==
    UNCHANGED <<file, methods_to_remove, rules, run, method, start_pos, i,
                brace_count, in_string, escape_next, out>>

\* lines 6-7: content = f.read()
CleanupRead ==
    /\ pc = "cleanup read"
    /\ content' = file
    /\ pc' = "line 11"
    /\ CleanupFrame

\* line 11: the generateFlowLogicXML method
RemoveGenerateFlowLogicXML ==
    /\ pc = "line 11"
    /\ content' = CleanupSub(content, 11)
    /\ pc' = "line 16"
    /\ CleanupFrame

\* line 16: the section that generates flow XML
RemoveFlowXml ==
    /\ pc = "line 16"
    /\ content' = CleanupSub(content, 16)
    /\ pc' = "line 19"
    /\ CleanupFrame

\* line 19: the call of generateFlowLogicXML
RemoveLogicXmlCall ==
    /\ pc = "line 19"
    /\ content' = CleanupSub(content, 19)
    /\ pc' = "line 20"
    /\ CleanupFrame

\* line 20: the push of logicXml
RemoveLogicXmlPush ==
    /\ pc = "line 20"
    /\ content' = CleanupSub(content, 20)
    /\ pc' = "line 23"
    /\ CleanupFrame

\* line 23: the case 'flow'
RemoveFlowCase ==
    /\ pc = "line 23"
    /\ content' = CleanupSub(content, 23)
    /\ pc' = "line 24"
    /\ CleanupFrame

\* line 24: the case 'subflow'
RemoveSubflowCase ==
    /\ pc = "line 24"
    /\ content' = CleanupSub(content, 24)
    /\ pc' = "line 27"
    /\ CleanupFrame

\* line 27: the workflow block
RemoveWorkflowBlock ==
    /\ pc = "line 27"
    /\ content' = CleanupSub(content, 27)
    /\ pc' = "cleanup write"
    /\ CleanupFrame

\* lines 30-31: the text is written back
CleanupWrite ==
    /\ pc = "cleanup write"
    /\ file' = Written(content)
    /\ pc' = "cleanup done"
    /\ UNCHANGED <<content, methods_to_remove, rules, run, method, start_pos,
                   i, brace_count, in_string, escape_next, out>>

\* the script is started again on the file it wrote
CleanupRerun ==
    /\ pc = "cleanup done"
    /\ run < MaxRuns
    /\ run' = run + 1
    /\ pc' = "cleanup read"
    /\ UNCHANGED <<file, content, methods_to_remove, rules, method, start_pos,
                   i, brace_count, in_string, escape_next, out>>

CleanupNext ==
    \/ CleanupRead
    \/ RemoveGenerateFlowLogicXML
    \/ RemoveFlowXml
    \/ RemoveLogicXmlCall
    \/ RemoveLogicXmlPush
    \/ RemoveFlowCase
    \/ RemoveSubflowCase
    \/ RemoveWorkflowBlock
    \/ CleanupWrite
    \/ CleanupRerun

CleanupSpec == CleanupInit /\ [][CleanupNext]_vars

-----------------------------------------------------------------------------
(* C18: the text the statement of line 11 removes                          *)

\* the matches re.sub(pat, ...) replaces in s from offset `from` on
RECURSIVE Matches(_, _, _)
Matches(pat, s, from) ==
    LET mt == Search(pat, s, from)
    IN  IF mt = NoMatch \/ mt.end = mt.start THEN {}
        ELSE {mt} \cup Matches(pat, s, mt.end)

\* the first opening brace of text from offset k on
FirstOpenBrace(text, k) ==
    CHOOSE b \in k..(Len(text) - 1) :
        /\ At(text, b) = "{"
        /\ \A j \in k..(b - 1) : At(text, j) # "{"

(* C18 as stated: every text the statement of line 11 replaces runs from    *)
(* `private generateFlowLogicXML(` to the closing brace that matches the    *)
(* opening brace of the method, whatever braces the body holds: the         *)
(* replaced text is balanced.                                               *)
C18_RemovedTextIsTheMethod ==
    pc = "line 11" =>
        \A mt \in Matches(Pattern10, content, 0) :
            MatchingBrace(content, FirstOpenBrace(content, mt.start), mt.end - 1)

-----------------------------------------------------------------------------
(* C19: two methods removed in one order or the other                      *)

(* C19 as stated: when the list holds two methods, both declared in the     *)
(* text read, with spans that share no character, the removal loop leaves   *)
(* the text that it leaves when the list is given the other way round.      *)
C19_ExcisionsCommute ==
    (/\ pc = "subs"
     /\ Len(methods_to_remove) = 2
     /\ MethodSpan(file, methods_to_remove[1]) # NoSpan
     /\ MethodSpan(file, methods_to_remove[2]) # NoSpan
     /\ ~Overlap(MethodSpan(file, methods_to_remove[1]),
                 MethodSpan(file, methods_to_remove[2])))
    => content = RemoveAll(file, <<methods_to_remove[2], methods_to_remove[1]>>, 1)

-----------------------------------------------------------------------------
(* C20: the cleanup run on its own result                                  *)

(* C20 as stated: the seven statements of the cleanup, run on a text they   *)
(* have already been run on, change nothing: a second run writes back the   *)
(* text it read, and no statement has a match in it.                        *)
C20_CleanupIdempotent ==
    (run > 1 /\ pc = "cleanup write") =>
        /\ content = file
        /\ \A k \in 1..Len(CleanupStatements) :
              Search(CleanupStatementAt(CleanupStatements[k]).pat, file, 0) = NoMatch

====
